---- MODULE Spec2Model ----
(***************************************************************************)
(* Model of the `img` crate: the reference grayscale pixel format          *)
(* (src/src/px/impl_gray.rs), the owning image buffer                      *)
(* (src/src/image/impl_buffer.rs) and the arithmetic-broadcasting layer    *)
(* (src/src/image/impl_core.rs, src/src/px/impl_core.rs).                  *)
(*                                                                         *)
(* A pixel value Gray { intensity } is modelled by its intensity, an       *)
(* unsigned integer of size_of::<BaseTypeP>() bytes (Gray<u8>, Gray<u16>). *)
(* The raw buffer is a sequence of bytes; a sample is stored in the host's *)
(* native representation, modelled little-endian.  A panic ("fatal         *)
(* failure") ends the program: no action is enabled after it.              *)
(* Within the bounds below the u32 product y * pitch never exceeds 2^32.   *)
(*                                                                         *)
(* A behaviour constructs an image, may establish its content with one     *)
(* load_from_raw_buffer, and then makes one call of any kind.  Since       *)
(* load_from_raw_buffer replaces the storage wholesale, the content any    *)
(* longer sequence of calls leaves behind is a content one load            *)
(* establishes; the model draws these contents from LoadBuffers.  The      *)
(* right-hand image of an image-image operator is an input of the call.    *)
(***************************************************************************)
EXTENDS Integers, Sequences, FiniteSets, TLC

\* ----------------------------------------------------------------- bounds
MaxWidth == 2
MaxHeight == 2
MaxPad == 1

VARIABLES
    size,             \* size_of::<BaseTypeP>() of the pixel type in use
    overflow_checks,  \* build profile: integer overflow panics (debug) or wraps
    phase,            \* "none": no image yet; "fresh": constructed;
                      \* "loaded": content established; "called": the call is made
    a,                \* the ImageBuffer under test
    last              \* the last call: its arguments, outcome and results

vars == <<size, overflow_checks, phase, a, last>>

\* ------------------------------------------------------------ value types
SampleSizes == {1, 2}

SizeOf == size

RECURSIVE Pow256(_)
Pow256(n) == IF n = 0 THEN 1 ELSE 256 * Pow256(n - 1)

\* number of values of the scalar type BaseTypeP
ScalarMod == Pow256(SizeOf)

\* native (little-endian) representation of a scalar as SizeOf bytes
ToBytes(v) == [i \in 1..SizeOf |-> (v \div Pow256(i - 1)) % 256]

RECURSIVE FromBytes(_)
FromBytes(bs) ==
    IF bs = <<>> THEN 0 ELSE Head(bs) + 256 * FromBytes(Tail(bs))

None == [tag |-> "None", val |-> 0]
Some(v) == [tag |-> "Some", val |-> v]
Panicked == [tag |-> "panic", val |-> 0]

NoImage == [width |-> 0, height |-> 0, pitch |-> 0, raw_data |-> <<>>]

\* ------------------------------------------------------ scalar arithmetic
\* BaseTypeP's own operators: overflow panics with overflow checks and wraps
\* without them; division by zero always panics.
\* l * r modulo ScalarMod, computed by halves so that no intermediate
\* product leaves the checker's integer range
WrappingMul(l, r) ==
    LET lh == l \div 256
        ll == l % 256
    IN  (((lh * r) % (ScalarMod \div 256)) * 256 + ll * r) % ScalarMod

Overflows(op, l, r) ==
    CASE op = "add" -> l + r >= ScalarMod
      [] op = "sub" -> l < r
      [] op = "mul" -> l # 0 /\ r > (ScalarMod - 1) \div l
      [] op = "div" -> FALSE

Wrapping(op, l, r) ==
    CASE op = "add" -> (l + r) % ScalarMod
      [] op = "sub" -> (l - r) % ScalarMod
      [] op = "mul" -> WrappingMul(l, r)
      [] op = "div" -> l \div r

ScalarOp(op, l, r) ==
    IF op = "div" /\ r = 0 THEN [ok |-> FALSE, val |-> 0]
    ELSE IF Overflows(op, l, r) /\ overflow_checks THEN [ok |-> FALSE, val |-> 0]
    ELSE [ok |-> TRUE, val |-> Wrapping(op, l, r)]

\* ------------------------------------------------- Gray: the Pixel contract
calc_minimum_pitch(width, height) == width * SizeOf

\* variant: a pitch one byte short of the minimum is accepted
calc_size_in_bytes_OneShort(width, height, pitch) ==
    IF pitch + 1 >= calc_minimum_pitch(width, height)
    THEN Some(height * pitch)
    ELSE None

calc_size_in_bytes(width, height, pitch) ==
    IF pitch >= calc_minimum_pitch(width, height)
    THEN Some(height * pitch)
    ELSE None

Gray_load_from_raw_buffer(x, y, pitch, buffer) ==
    LET start == (y * pitch) + x * SizeOf
        end == start + SizeOf
    IN  IF end <= Len(buffer)
        THEN [ok |-> TRUE, val |-> FromBytes(SubSeq(buffer, start + 1, end))]
        ELSE [ok |-> FALSE, val |-> 0]

\* variant: the column offset is not scaled by the sample size
Gray_write_into_raw_buffer_Unscaled(intensity, x, y, pitch, buffer) ==
    LET start == (y * pitch) + x
        end == start + SizeOf
    IN  IF end <= Len(buffer)
        THEN [ok |-> TRUE,
              buf |-> [i \in 1..Len(buffer) |->
                          IF i > start /\ i <= end
                          THEN ToBytes(intensity)[i - start]
                          ELSE buffer[i]]]
        ELSE [ok |-> FALSE, buf |-> buffer]

Gray_write_into_raw_buffer(intensity, x, y, pitch, buffer) ==
    LET start == (y * pitch) + x * SizeOf
        end == start + SizeOf
    IN  IF end <= Len(buffer)
        THEN [ok |-> TRUE,
              buf |-> [i \in 1..Len(buffer) |->
                          IF i > start /\ i <= end
                          THEN ToBytes(intensity)[i - start]
                          ELSE buffer[i]]]
        ELSE [ok |-> FALSE, buf |-> buffer]

\* ---------------------------------------- Gray: the PixelArithmetic contract
Gray_op_px_px(op, self, rhs) == ScalarOp(op, self, rhs)

Gray_op_px_sc(op, self, rhs) == ScalarOp(op, self, rhs)

\* variant: the scalar ends up on the right
Gray_op_sc_px_ScalarRight(op, self, lhs) == ScalarOp(op, self, lhs)

Gray_op_sc_px(op, self, lhs) == ScalarOp(op, lhs, self)

\* ------------------------------------------------ PixelVal: std operators
\* variant: the operands are swapped
PixelVal_op_px_px_Swapped(op, self, rhs) == Gray_op_px_px(op, rhs, self)

PixelVal_op_px_px(op, self, rhs) == Gray_op_px_px(op, self, rhs)

PixelVal_op_px_sc(op, self, rhs) == Gray_op_px_sc(op, self, rhs)

ScalarVal_op_sc_px(op, self, rhs) == Gray_op_sc_px(op, rhs, self)

\* px <assign_op> px | px <assign_op> sc:  *self = (*self).op(rhs)
\* variant: the compound form combines in the other order
PixelVal_op_assign_px_Swapped(op, self, rhs) == PixelVal_op_px_px(op, rhs, self)

PixelVal_op_assign_px(op, self, rhs) == PixelVal_op_px_px(op, self, rhs)

PixelVal_op_assign_sc(op, self, rhs) == PixelVal_op_px_sc(op, self, rhs)

\* ------------------------------------------------------------ ImageBuffer
\* variant: the buffer is filled with a non-zero byte
new_with_size_and_pitch_Filled(width, height, pitch) ==
    LET size_in_bytes == calc_size_in_bytes(width, height, pitch)
    IN  IF size_in_bytes.tag = "None"
        THEN [ok |-> FALSE, img |-> NoImage]
        ELSE [ok |-> TRUE,
              img |-> [width |-> width, height |-> height, pitch |-> pitch,
                       raw_data |-> [i \in 1..size_in_bytes.val |-> 255]]]

new_with_size_and_pitch(width, height, pitch) ==
    LET size_in_bytes == calc_size_in_bytes(width, height, pitch)
    IN  IF size_in_bytes.tag = "None"
        THEN [ok |-> FALSE, img |-> NoImage]
        ELSE [ok |-> TRUE,
              img |-> [width |-> width, height |-> height, pitch |-> pitch,
                       raw_data |-> [i \in 1..size_in_bytes.val |-> 0]]]

\* variant: rows are padded by one byte
new_with_size_Padded(width, height) ==
    new_with_size_and_pitch(width, height, calc_minimum_pitch(width, height) + 1)

new_with_size(width, height) ==
    new_with_size_and_pitch(width, height, calc_minimum_pitch(width, height))

\* .expect(...) on the Option: None is a panic
get_size_in_bytes(img) ==
    LET s == calc_size_in_bytes(img.width, img.height, img.pitch)
    IN  IF s.tag = "None" THEN [ok |-> FALSE, val |-> 0]
        ELSE [ok |-> TRUE, val |-> s.val]

\* variant: a buffer one byte longer than the image is accepted
ImageBuffer_load_from_raw_buffer_Longer(img, buffer) ==
    LET s == get_size_in_bytes(img)
    IN  IF ~s.ok \/ (s.val # Len(buffer) /\ s.val + 1 # Len(buffer))
        THEN [ok |-> FALSE, img |-> img]
        ELSE [ok |-> TRUE, img |-> [img EXCEPT !.raw_data = buffer]]

\* variant: the length of the buffer is not checked
ImageBuffer_load_from_raw_buffer_Unchecked(img, buffer) ==
    [ok |-> TRUE, img |-> [img EXCEPT !.raw_data = buffer]]

ImageBuffer_load_from_raw_buffer(img, buffer) ==
    LET s == get_size_in_bytes(img)
    IN  IF ~s.ok \/ s.val # Len(buffer)
        THEN [ok |-> FALSE, img |-> img]
        ELSE [ok |-> TRUE, img |-> [img EXCEPT !.raw_data = buffer]]

\* variant: only the bytes of pixels are copied, row padding is skipped
ImageBuffer_write_into_raw_buffer_PixelsOnly(img, buffer) ==
    LET s == get_size_in_bytes(img)
    IN  IF ~s.ok \/ s.val # Len(buffer)
        THEN [ok |-> FALSE, buf |-> buffer]
        ELSE [ok |-> TRUE,
              buf |-> [i \in 1..Len(buffer) |->
                          IF (i - 1) % img.pitch < calc_minimum_pitch(img.width, img.height)
                          THEN img.raw_data[i]
                          ELSE buffer[i]]]

ImageBuffer_write_into_raw_buffer(img, buffer) ==
    LET s == get_size_in_bytes(img)
    IN  IF ~s.ok \/ s.val # Len(buffer)
        THEN [ok |-> FALSE, buf |-> buffer]
        ELSE IF Len(img.raw_data) # Len(buffer)
        THEN [ok |-> FALSE, buf |-> buffer]
        ELSE [ok |-> TRUE, buf |-> img.raw_data]

\* variant: both bounds are required, against the wrong axes
ImageBuffer_get_pixel_SwappedAxes(img, x, y) ==
    IF x < img.height /\ y < img.width
    THEN LET p == Gray_load_from_raw_buffer(x, y, img.pitch, img.raw_data)
         IN  IF p.ok THEN Some(p.val) ELSE Panicked
    ELSE None

ImageBuffer_get_pixel(img, x, y) ==
    IF x < img.width \/ y < img.height
    THEN LET p == Gray_load_from_raw_buffer(x, y, img.pitch, img.raw_data)
         IN  IF p.ok THEN Some(p.val) ELSE Panicked
    ELSE None

\* variant: the row offset uses the minimum pitch instead of the image's pitch
ImageBuffer_set_pixel_MinimumPitch(img, x, y, value) ==
    IF ~(x < img.width \/ y < img.height)
    THEN [ok |-> FALSE, img |-> img]
    ELSE LET w == Gray_write_into_raw_buffer(value, x, y,
                      calc_minimum_pitch(img.width, img.height), img.raw_data)
         IN  IF w.ok THEN [ok |-> TRUE, img |-> [img EXCEPT !.raw_data = w.buf]]
             ELSE [ok |-> FALSE, img |-> img]

ImageBuffer_set_pixel(img, x, y, value) ==
    IF ~(x < img.width \/ y < img.height)
    THEN [ok |-> FALSE, img |-> img]
    ELSE LET w == Gray_write_into_raw_buffer(value, x, y, img.pitch, img.raw_data)
         IN  IF w.ok THEN [ok |-> TRUE, img |-> [img EXCEPT !.raw_data = w.buf]]
             ELSE [ok |-> FALSE, img |-> img]

ImageBuffer_clone(img) == img

\* ------------------------------------------ arithmetic-broadcasting layer
\* Every scan visits k = 0, 1, ... in the order of
\*   for y in 0..height { for x in 0..width { ... } }
\* and stops at the first panic (an unwrap of None, a failed decode or
\* encode, a failed scalar operation).

\* img <op> img : the loop of derive_std_op_for_img_img
RECURSIVE scan_img_img(_, _, _, _, _)
scan_img_img(op, self, rhs, result, k) ==
    IF k >= self.width * self.height THEN [ok |-> TRUE, img |-> result]
    ELSE LET y == k \div self.width
             x == k % self.width
             pl == ImageBuffer_get_pixel(self, x, y)
             pr == ImageBuffer_get_pixel(rhs, x, y)
         IN  IF pl.tag # "Some" \/ pr.tag # "Some"
             THEN [ok |-> FALSE, img |-> result]
             ELSE LET new_pixel == PixelVal_op_px_px(op, pl.val, pr.val)
                  IN  IF ~new_pixel.ok THEN [ok |-> FALSE, img |-> result]
                      ELSE LET w == ImageBuffer_set_pixel(result, x, y, new_pixel.val)
                           IN  IF ~w.ok THEN [ok |-> FALSE, img |-> result]
                               ELSE scan_img_img(op, self, rhs, w.img, k + 1)

op_img_img(op, self, rhs) ==
    IF self.width # rhs.width \/ self.height # rhs.height
    THEN [ok |-> FALSE, img |-> NoImage]
    ELSE LET result == new_with_size(self.width, self.height)
         IN  IF ~result.ok THEN [ok |-> FALSE, img |-> NoImage]
             ELSE scan_img_img(op, self, rhs, result.img, 0)

\* the new pixel of one step of img <op> px | px <op> img | img <op> sc | sc <op> img
new_pixel_img_val(shape, op, pixel, value) ==
    CASE shape = "img_px" -> PixelVal_op_px_px(op, pixel, value)
      [] shape = "px_img" -> PixelVal_op_px_px(op, value, pixel)
      [] shape = "img_sc" -> PixelVal_op_px_sc(op, pixel, value)
      [] shape = "sc_img" -> ScalarVal_op_sc_px(op, value, pixel)

\* the loops of derive_std_op_for_img_val_and_val_img
RECURSIVE scan_img_val(_, _, _, _, _, _)
scan_img_val(shape, op, image, value, result, k) ==
    IF k >= image.width * image.height THEN [ok |-> TRUE, img |-> result]
    ELSE LET y == k \div image.width
             x == k % image.width
             p == ImageBuffer_get_pixel(image, x, y)
         IN  IF p.tag # "Some" THEN [ok |-> FALSE, img |-> result]
             ELSE LET new_pixel == new_pixel_img_val(shape, op, p.val, value)
                  IN  IF ~new_pixel.ok THEN [ok |-> FALSE, img |-> result]
                      ELSE LET w == ImageBuffer_set_pixel(result, x, y, new_pixel.val)
                           IN  IF ~w.ok THEN [ok |-> FALSE, img |-> result]
                               ELSE scan_img_val(shape, op, image, value, w.img, k + 1)

op_img_val(shape, op, image, value) ==
    LET result == new_with_size(image.width, image.height)
    IN  IF ~result.ok THEN [ok |-> FALSE, img |-> NoImage]
        ELSE scan_img_val(shape, op, image, value, result.img, 0)

\* img <assign_op> img : the loop of derive_std_assign_op_for_img_img_and_img_val;
\* on a panic the left image keeps the pixels already written
RECURSIVE scan_assign_img_img(_, _, _, _)
scan_assign_img_img(op, self, rhs, k) ==
    IF k >= self.width * self.height THEN [ok |-> TRUE, img |-> self]
    ELSE LET y == k \div self.width
             x == k % self.width
             pixel_lhs == ImageBuffer_get_pixel(self, x, y)
             pixel_rhs == ImageBuffer_get_pixel(rhs, x, y)
         IN  IF pixel_lhs.tag # "Some" \/ pixel_rhs.tag # "Some"
             THEN [ok |-> FALSE, img |-> self]
             ELSE LET np == PixelVal_op_assign_px(op, pixel_lhs.val, pixel_rhs.val)
                  IN  IF ~np.ok THEN [ok |-> FALSE, img |-> self]
                      ELSE LET w == ImageBuffer_set_pixel(self, x, y, np.val)
                           IN  IF ~w.ok THEN [ok |-> FALSE, img |-> self]
                               ELSE scan_assign_img_img(op, w.img, rhs, k + 1)

\* variant: only the widths are compared
op_assign_img_img_WidthOnly(op, self, rhs) ==
    IF self.width # rhs.width
    THEN [ok |-> FALSE, img |-> self]
    ELSE scan_assign_img_img(op, self, rhs, 0)

op_assign_img_img(op, self, rhs) ==
    IF self.width # rhs.width \/ self.height # rhs.height
    THEN [ok |-> FALSE, img |-> self]
    ELSE scan_assign_img_img(op, self, rhs, 0)

\* img <assign_op> px | img <assign_op> sc
RECURSIVE op_assign_img_val(_, _, _, _, _)
op_assign_img_val(shape, op, self, rhs, k) ==
    IF k >= self.width * self.height THEN [ok |-> TRUE, img |-> self]
    ELSE LET y == k \div self.width
             x == k % self.width
             pixel == ImageBuffer_get_pixel(self, x, y)
         IN  IF pixel.tag # "Some" THEN [ok |-> FALSE, img |-> self]
             ELSE LET np == IF shape = "img_px"
                            THEN PixelVal_op_assign_px(op, pixel.val, rhs)
                            ELSE PixelVal_op_assign_sc(op, pixel.val, rhs)
                  IN  IF ~np.ok THEN [ok |-> FALSE, img |-> self]
                      ELSE LET w == ImageBuffer_set_pixel(self, x, y, np.val)
                           IN  IF ~w.ok THEN [ok |-> FALSE, img |-> self]
                               ELSE op_assign_img_val(shape, op, w.img, rhs, k + 1)

\* ------------------------------------------------------- enumerated inputs
Ops == {"add", "sub", "mul", "div"}
ValShapes == {"img_px", "px_img", "img_sc", "sc_img"}
AssignValShapes == {"img_px", "img_sc"}

\* pixel and scalar operands: zero, a small value, the largest value
Vals == {0, 2, ScalarMod - 1}

Xs == 0..MaxWidth
Ys == 0..MaxHeight

\* byte patterns for raw buffers of length n
Ramp(n) == [i \in 1..n |-> (i - 1) % 256]
High(n) == [i \in 1..n |-> 255 - ((i - 1) % 256)]
Fill(n) == [i \in 1..n |-> 0]

\* buffers handed to load_from_raw_buffer on an image of n bytes: right and wrong lengths
LoadBuffers(n) == {Ramp(n), High(n), Ramp(n + 1)} \cup (IF n > 0 THEN {High(n - 1)} ELSE {})

\* buffers handed to write_into_raw_buffer
OutBuffers(n) == {Fill(n), Fill(n + 1)}

\* the geometries a caller may ask for; pitch may be one short of the minimum
Pitches(w) == (IF w > 0 THEN {calc_minimum_pitch(w, 0) - 1} ELSE {})
              \cup {calc_minimum_pitch(w, 0) + d : d \in 0..MaxPad}

\* right-hand images: constructed, then loaded from a raw buffer
RhsImage(w, h, p, hi) ==
    LET c == new_with_size_and_pitch(w, h, p).img
    IN  ImageBuffer_load_from_raw_buffer(c, IF hi THEN High(h * p) ELSE Ramp(h * p)).img

\* right-hand images for the left image img: every pitch and content with
\* img's width and height, and the sizes one column or one row off
RhsImages(img) ==
    {RhsImage(img.width, img.height,
              calc_minimum_pitch(img.width, img.height) + d, hi) :
        d \in 0..MaxPad, hi \in BOOLEAN}
    \cup {RhsImage(w, img.height, calc_minimum_pitch(w, img.height), FALSE) :
             w \in {img.width - 1, img.width + 1} \cap (0..MaxWidth)}
    \cup {RhsImage(img.width, h, calc_minimum_pitch(img.width, h), FALSE) :
             h \in {img.height - 1, img.height + 1} \cap (0..MaxHeight)}

\* ------------------------------------------------------------------ state
\* The record of a call.  op: the function called; shape, fn: the operand shape
\* and operator of an arithmetic call; x, y, v: location and value arguments
\* (width, height, pitch for a constructor); b: the right-hand image; buf: the
\* caller's buffer; pre: the image before the call; outcome: "ok" or "panic";
\* ret: the Option returned by get_pixel; res: the image returned; out: the
\* caller's buffer after the call.
NoCall == [op |-> "none", shape |-> "", fn |-> "", x |-> 0, y |-> 0, v |-> 0,
           b |-> NoImage, buf |-> <<>>, pre |-> NoImage, outcome |-> "ok",
           ret |-> None, res |-> NoImage, out |-> <<>>]

Outcome(ok) == IF ok THEN "ok" ELSE "panic"

\* an image exists, no call has panicked and the call is still to be made
Running == phase \in {"fresh", "loaded"} /\ last.outcome = "ok"

Init ==
    /\ size \in SampleSizes
    /\ overflow_checks \in BOOLEAN
    /\ phase = "none"
    /\ a = NoImage
    /\ last = NoCall

\* ImageBufferVal::new_with_size(width, height)
NewWithSize ==
    \E w \in 0..MaxWidth, h \in 0..MaxHeight :
        LET r == new_with_size(w, h)
        IN  /\ phase = "none"
            /\ phase' = "fresh"
            /\ a' = r.img
            /\ last' = [NoCall EXCEPT !.op = "new_with_size", !.x = w, !.y = h,
                                      !.outcome = Outcome(r.ok), !.res = r.img]
            /\ UNCHANGED <<size, overflow_checks>>

\* ImageBufferVal::new_with_size_and_pitch(width, height, pitch)
NewWithSizeAndPitch ==
    \E w \in 0..MaxWidth, h \in 0..MaxHeight :
      \E p \in Pitches(w) :
        LET r == new_with_size_and_pitch(w, h, p)
        IN  /\ phase = "none"
            /\ phase' = "fresh"
            /\ a' = r.img
            /\ last' = [NoCall EXCEPT !.op = "new_with_size_and_pitch", !.x = w,
                                      !.y = h, !.v = p,
                                      !.outcome = Outcome(r.ok), !.res = r.img]
            /\ UNCHANGED <<size, overflow_checks>>

GetPixel ==
    \E x \in Xs, y \in Ys :
        LET r == ImageBuffer_get_pixel(a, x, y)
        IN  /\ Running
            /\ phase' = "called"
            /\ last' = [NoCall EXCEPT !.op = "get_pixel", !.x = x, !.y = y, !.pre = a,
                                      !.outcome = Outcome(r.tag # "panic"), !.ret = r]
            /\ UNCHANGED <<size, overflow_checks, a>>

SetPixel ==
    \E x \in Xs, y \in Ys, v \in Vals :
        LET r == ImageBuffer_set_pixel(a, x, y, v)
        IN  /\ Running
            /\ phase' = "called"
            /\ a' = r.img
            /\ last' = [NoCall EXCEPT !.op = "set_pixel", !.x = x, !.y = y, !.v = v,
                                      !.pre = a, !.outcome = Outcome(r.ok)]
            /\ UNCHANGED <<size, overflow_checks>>

\* the first load on a fresh image establishes its content; any other is the call
LoadFromRawBuffer ==
    \E buffer \in LoadBuffers(Len(a.raw_data)) :
        LET r == ImageBuffer_load_from_raw_buffer(a, buffer)
        IN  /\ Running
            /\ phase' = IF phase = "fresh" THEN "loaded" ELSE "called"
            /\ a' = r.img
            /\ last' = [NoCall EXCEPT !.op = "load_from_raw_buffer", !.buf = buffer,
                                      !.pre = a, !.outcome = Outcome(r.ok)]
            /\ UNCHANGED <<size, overflow_checks>>

WriteIntoRawBuffer ==
    \E buffer \in OutBuffers(Len(a.raw_data)) :
        LET r == ImageBuffer_write_into_raw_buffer(a, buffer)
        IN  /\ Running
            /\ phase' = "called"
            /\ last' = [NoCall EXCEPT !.op = "write_into_raw_buffer", !.buf = buffer,
                                      !.pre = a, !.outcome = Outcome(r.ok),
                                      !.out = r.buf]
            /\ UNCHANGED <<size, overflow_checks, a>>

Clone ==
    /\ Running
    /\ phase' = "called"
    /\ last' = [NoCall EXCEPT !.op = "clone", !.pre = a, !.res = ImageBuffer_clone(a)]
    /\ UNCHANGED <<size, overflow_checks, a>>

\* &a <op> &b
OpImgImg ==
    \E op \in Ops, b \in RhsImages(a) :
        LET r == op_img_img(op, a, b)
        IN  /\ Running
            /\ phase' = "called"
            /\ last' = [NoCall EXCEPT !.op = "op", !.shape = "img_img", !.fn = op,
                                      !.b = b, !.pre = a, !.outcome = Outcome(r.ok),
                                      !.res = IF r.ok THEN r.img ELSE NoImage]
            /\ UNCHANGED <<size, overflow_checks, a>>

\* &a <op> px | px <op> &a | &a <op> sc | sc <op> &a
OpImgVal ==
    \E shape \in ValShapes, op \in Ops, v \in Vals :
        LET r == op_img_val(shape, op, a, v)
        IN  /\ Running
            /\ phase' = "called"
            /\ last' = [NoCall EXCEPT !.op = "op", !.shape = shape, !.fn = op,
                                      !.v = v, !.pre = a, !.outcome = Outcome(r.ok),
                                      !.res = IF r.ok THEN r.img ELSE NoImage]
            /\ UNCHANGED <<size, overflow_checks, a>>

\* a <op>= &b
AssignImgImg ==
    \E op \in Ops, b \in RhsImages(a) :
        LET r == op_assign_img_img(op, a, b)
        IN  /\ Running
            /\ phase' = "called"
            /\ a' = r.img
            /\ last' = [NoCall EXCEPT !.op = "assign", !.shape = "img_img", !.fn = op,
                                      !.b = b, !.pre = a, !.outcome = Outcome(r.ok)]
            /\ UNCHANGED <<size, overflow_checks>>

\* a <op>= px | a <op>= sc
AssignImgVal ==
    \E shape \in AssignValShapes, op \in Ops, v \in Vals :
        LET r == op_assign_img_val(shape, op, a, v, 0)
        IN  /\ Running
            /\ phase' = "called"
            /\ a' = r.img
            /\ last' = [NoCall EXCEPT !.op = "assign", !.shape = shape, !.fn = op,
                                      !.v = v, !.pre = a, !.outcome = Outcome(r.ok)]
            /\ UNCHANGED <<size, overflow_checks>>

Next ==
    \/ NewWithSize
    \/ NewWithSizeAndPitch
    \/ GetPixel
    \/ SetPixel
    \/ LoadFromRawBuffer
    \/ WriteIntoRawBuffer
    \/ Clone
    \/ OpImgImg
    \/ OpImgVal
    \/ AssignImgImg
    \/ AssignImgVal

Spec == Init /\ [][Next]_vars

\* ----------------------------------------------------------------- claims
\* the locations of img: x < width and y < height
Locations(img) == (0..(img.width - 1)) \X (0..(img.height - 1))

OutOfBounds(img, x, y) == x >= img.width \/ y >= img.height

\* the storage of img has the size its geometry asks for
StorageOk(img) ==
    /\ img.pitch >= calc_minimum_pitch(img.width, img.height)
    /\ calc_size_in_bytes(img.width, img.height, img.pitch) = Some(Len(img.raw_data))
    /\ Len(img.raw_data) = img.height * img.pitch

\* C1: after set_pixel(x, y, v) with x < width and y < height, get_pixel(x, y)
\* returns Some(v).
C1_SetThenGet ==
    (last.op = "set_pixel" /\ ~OutOfBounds(last.pre, last.x, last.y))
        => /\ last.outcome = "ok"
           /\ ImageBuffer_get_pixel(a, last.x, last.y) = Some(last.v)

C1_Witness ==
    /\ last.op = "set_pixel" /\ last.outcome = "ok"
    /\ last.x = 1 /\ last.y = 1 /\ last.v = 2
    /\ last.pre.width = 2 /\ last.pre.height = 2
    /\ size = 2 /\ a.pitch > calc_minimum_pitch(a.width, a.height)
    /\ a # last.pre

\* C2: get_pixel(x, y) with x >= width or y >= height returns None: neither
\* Some(pixel) nor a panic.
C2_OutOfBoundsGetIsNone ==
    (last.op = "get_pixel" /\ OutOfBounds(last.pre, last.x, last.y))
        => (last.outcome = "ok" /\ last.ret = None)

\* C3: set_pixel(x, y, v) with x >= width or y >= height panics and writes
\* nothing into the storage.
C3_OutOfBoundsSetPanics ==
    (last.op = "set_pixel" /\ OutOfBounds(last.pre, last.x, last.y))
        => (last.outcome = "panic" /\ a = last.pre)

\* C4: the result r of &a op &b on images of equal width and height holds
\* a[x,y] op b[x,y] at every location, whatever the pitches of a and b.
C4_ImgImgBroadcast ==
    (last.op = "op" /\ last.shape = "img_img" /\ last.outcome = "ok")
        => \A loc \in Locations(a) :
              LET pa == ImageBuffer_get_pixel(a, loc[1], loc[2])
                  pb == ImageBuffer_get_pixel(last.b, loc[1], loc[2])
                  e == ScalarOp(last.fn, pa.val, pb.val)
              IN  /\ pa.tag = "Some" /\ pb.tag = "Some" /\ e.ok
                  /\ ImageBuffer_get_pixel(last.res, loc[1], loc[2]) = Some(e.val)

\* the 2x2 single-byte image [0,1,2,3] multiplied by itself gives [0,1,4,9]
C4_Witness ==
    /\ last.op = "op" /\ last.shape = "img_img" /\ last.fn = "mul"
    /\ last.outcome = "ok" /\ size = 1
    /\ a.width = 2 /\ a.height = 2
    /\ a.raw_data = <<0, 1, 2, 3>> /\ last.b.raw_data = <<0, 1, 2, 3>>
    /\ last.res.raw_data = <<0, 1, 4, 9>>

\* C5: broadcasting a single value keeps the operand order: a op p and a op s
\* hold a[x,y] op value, p op a and s op a hold value op a[x,y].
C5_ValueBroadcastOrder ==
    (last.op = "op" /\ last.shape \in ValShapes /\ last.outcome = "ok")
        => \A loc \in Locations(a) :
              LET pa == ImageBuffer_get_pixel(a, loc[1], loc[2])
                  e == IF last.shape \in {"img_px", "img_sc"}
                       THEN ScalarOp(last.fn, pa.val, last.v)
                       ELSE ScalarOp(last.fn, last.v, pa.val)
              IN  /\ pa.tag = "Some" /\ e.ok
                  /\ ImageBuffer_get_pixel(last.res, loc[1], loc[2]) = Some(e.val)

\* scalar / image where value / pixel and pixel / value differ
C5_Witness ==
    /\ last.op = "op" /\ last.shape = "sc_img" /\ last.fn = "div"
    /\ last.outcome = "ok" /\ last.v = 2
    /\ a.width = 2 /\ a.height = 2
    /\ ImageBuffer_get_pixel(a, 1, 1).val > 2
    /\ ImageBuffer_get_pixel(last.res, 1, 1) = Some(0)

\* C6: after a op= b the image a has the width, the height and the pixel at
\* every location of the image &a op b computes from the same operands.
C6_AssignMatchesAllocating ==
    (last.op = "assign" /\ last.outcome = "ok")
        => LET r == IF last.shape = "img_img"
                    THEN op_img_img(last.fn, last.pre, last.b)
                    ELSE op_img_val(last.shape, last.fn, last.pre, last.v)
           IN  /\ r.ok
               /\ r.img.width = a.width /\ r.img.height = a.height
               /\ \A loc \in Locations(a) :
                     /\ ImageBuffer_get_pixel(a, loc[1], loc[2]).tag = "Some"
                     /\ ImageBuffer_get_pixel(a, loc[1], loc[2])
                            = ImageBuffer_get_pixel(r.img, loc[1], loc[2])

C6_Witness ==
    /\ last.op = "assign" /\ last.shape = "img_img" /\ last.fn = "sub"
    /\ last.outcome = "ok"
    /\ a.width = 2 /\ a.height = 2
    /\ a.pitch > calc_minimum_pitch(a.width, a.height)
    /\ a # last.pre

\* C7: every image has a storage of size_in_bytes(width, height, pitch)
\* = height * pitch bytes and a pitch of at least the minimum pitch.
C7_StorageSize ==
    /\ StorageOk(a)
    /\ StorageOk(last.pre)
    /\ StorageOk(last.b)
    /\ StorageOk(last.res)

C7_Witness ==
    /\ phase = "called" /\ last.op = "load_from_raw_buffer" /\ last.outcome = "ok"
    /\ a.width = 2 /\ a.height = 2
    /\ a.pitch > calc_minimum_pitch(a.width, a.height)
    /\ a.raw_data # last.pre.raw_data

\* C8 as stated: the image an allocating operator returns has the width, the
\* height and the pitch of its image operand.
C8_ResultKeepsPitch ==
    (last.op = "op" /\ last.outcome = "ok")
        => /\ last.res.width = a.width
           /\ last.res.height = a.height
           /\ last.res.pitch = a.pitch

\* C8 as amended: the image an allocating operator returns has the width and
\* the height of its image operand and the minimum pitch for them.
C8_ResultHasMinimumPitch ==
    (last.op = "op" /\ last.outcome = "ok")
        => /\ last.res.width = a.width
           /\ last.res.height = a.height
           /\ last.res.pitch = calc_minimum_pitch(a.width, a.height)

C8_Witness ==
    /\ last.op = "op" /\ last.shape = "px_img" /\ last.outcome = "ok"
    /\ a.width = 2 /\ a.height = 2
    /\ a.pitch > calc_minimum_pitch(a.width, a.height)
    /\ last.res.pitch < a.pitch

\* C9: &a op &b and a op= &b on images of different width or height panic
\* before any pixel is combined; the left image is unchanged.
C9_DimensionMismatchPanics ==
    (/\ last.op \in {"op", "assign"} /\ last.shape = "img_img"
     /\ (last.pre.width # last.b.width \/ last.pre.height # last.b.height))
        => /\ last.outcome = "panic"
           /\ a = last.pre
           /\ last.res = NoImage

C9_Witness ==
    /\ last.op = "assign" /\ last.shape = "img_img" /\ last.outcome = "panic"
    /\ last.pre.width = 2 /\ last.b.width = 2
    /\ last.pre.height = 1 /\ last.b.height = 2
    /\ last.fn = "add" /\ a = last.pre

\* C10: after load_from_raw_buffer(b), write_into_raw_buffer(b2) with a b2 of
\* get_size_in_bytes() bytes leaves b2 = b, row padding included.
C10_BufferRoundTrip ==
    (last.op = "load_from_raw_buffer" /\ last.outcome = "ok")
        => \A b2 \in OutBuffers(Len(last.buf)) :
              Len(b2) = get_size_in_bytes(a).val
                  => LET w == ImageBuffer_write_into_raw_buffer(a, b2)
                     IN  w.ok /\ w.buf = last.buf

\* a padded image loaded from a buffer whose padding bytes are not zero
C10_Witness ==
    /\ last.op = "load_from_raw_buffer" /\ last.outcome = "ok"
    /\ a.width = 2 /\ a.height = 2
    /\ a.pitch = calc_minimum_pitch(a.width, a.height) + 1
    /\ last.buf[a.pitch] # 0 /\ last.buf[2 * a.pitch] # 0


\* C13: right after new_with_size or a successful new_with_size_and_pitch every
\* byte of the storage is 0 and get_pixel returns the zero pixel at every location.
C13_FreshImageIsZero ==
    (phase = "fresh" /\ last.outcome = "ok")
        => /\ last.op \in {"new_with_size", "new_with_size_and_pitch"}
           /\ a = last.res
           /\ \A i \in 1..Len(a.raw_data) : a.raw_data[i] = 0
           /\ \A loc \in Locations(a) :
                 ImageBuffer_get_pixel(a, loc[1], loc[2]) = Some(0)

C13_Witness ==
    /\ phase = "fresh" /\ last.op = "new_with_size_and_pitch" /\ last.outcome = "ok"
    /\ a.width = 2 /\ a.height = 2 /\ size = 2
    /\ a.pitch > calc_minimum_pitch(a.width, a.height)
    /\ Len(a.raw_data) = 10

\* C14: load_from_raw_buffer(b) and write_into_raw_buffer(b) panic whenever
\* len(b) differs from get_size_in_bytes(); a failed load leaves the storage
\* and the geometry of the image unchanged.
C14_LengthMismatchPanics ==
    (/\ last.op \in {"load_from_raw_buffer", "write_into_raw_buffer"}
     /\ Len(last.buf) # last.pre.height * last.pre.pitch)
        => /\ last.outcome = "panic"
           /\ a = last.pre

C14_Witness ==
    /\ last.op = "load_from_raw_buffer" /\ last.outcome = "panic"
    /\ last.pre.width = 2 /\ last.pre.height = 2
    /\ Len(last.buf) = Len(last.pre.raw_data) + 1
    /\ phase = "called" /\ last.pre.raw_data # last.buf
    /\ a = last.pre

\* C17 as stated: the implemented predicate (x < width OR y < height) rejects
\* some in-range location: there are an image and a location with x < width and
\* y < height where get_pixel returns no value or set_pixel fails.
C17_SomeInRangeLocationRejected ==
    \E w \in 0..MaxWidth, h \in 0..MaxHeight, d \in 0..MaxPad :
        LET img == new_with_size_and_pitch(w, h, calc_minimum_pitch(w, h) + d).img
        IN  \E loc \in Locations(img) :
               \/ ImageBuffer_get_pixel(img, loc[1], loc[2]).tag # "Some"
               \/ ~ImageBuffer_set_pixel(img, loc[1], loc[2], 0).ok

\* C17 as amended: the implemented predicate rejects no in-range location:
\* with x < width and y < height get_pixel returns a value and set_pixel
\* completes.
C17_InRangeLocationAccepted ==
    /\ (last.op = "get_pixel" /\ ~OutOfBounds(last.pre, last.x, last.y))
           => (last.outcome = "ok" /\ last.ret.tag = "Some")
    /\ (last.op = "set_pixel" /\ ~OutOfBounds(last.pre, last.x, last.y))
           => last.outcome = "ok"

C17_Witness ==
    /\ last.op = "get_pixel" /\ last.ret.tag = "Some"
    /\ last.pre.width = 1 /\ last.pre.height = 2
    /\ last.x = 0 /\ last.y = 1

\* C19: an in-bounds set_pixel(x, y, v) changes only the size_of bytes at
\* offset y*pitch + x*size_of: every other byte (other pixels, row padding)
\* and width, height, pitch are unchanged, and the byte ranges of distinct
\* in-bounds pixels do not overlap.
PixelBytes(img, x, y) ==
    {y * img.pitch + x * SizeOf + i : i \in 1..SizeOf}

C19_SetPixelFrame ==
    (last.op = "set_pixel" /\ ~OutOfBounds(last.pre, last.x, last.y))
        => /\ last.outcome = "ok"
           /\ a.width = last.pre.width /\ a.height = last.pre.height
           /\ a.pitch = last.pre.pitch
           /\ Len(a.raw_data) = Len(last.pre.raw_data)
           /\ \A i \in 1..Len(a.raw_data) :
                 i \notin PixelBytes(a, last.x, last.y)
                     => a.raw_data[i] = last.pre.raw_data[i]
           /\ \A loc \in Locations(a) :
                 loc # <<last.x, last.y>>
                     => /\ PixelBytes(a, loc[1], loc[2])
                               \cap PixelBytes(a, last.x, last.y) = {}
                        /\ ImageBuffer_get_pixel(a, loc[1], loc[2])
                               = ImageBuffer_get_pixel(last.pre, loc[1], loc[2])

\* a padded, loaded image whose pixel (1,0) is overwritten
C19_Witness ==
    /\ last.op = "set_pixel" /\ last.outcome = "ok"
    /\ last.x = 1 /\ last.y = 0 /\ last.v = 0
    /\ last.pre.width = 2 /\ last.pre.height = 2 /\ size = 2
    /\ a.pitch > calc_minimum_pitch(a.width, a.height)
    /\ a # last.pre /\ a.raw_data[5] # 0 /\ a.raw_data[6] # 0


\* C12: new_with_size_and_pitch(width, height, pitch) panics whenever pitch is
\* below calc_minimum_pitch(width, height), and no image whose pitch is below
\* its minimum pitch exists at any time.
C12_PitchBelowMinimumRejected ==
    /\ (/\ last.op = "new_with_size_and_pitch"
        /\ last.v < calc_minimum_pitch(last.x, last.y))
           => (last.outcome = "panic" /\ a = NoImage /\ last.res = NoImage)
    /\ \A img \in {a, last.pre, last.res, last.b} :
           img.pitch >= calc_minimum_pitch(img.width, img.height)

C12_Witness ==
    /\ last.op = "new_with_size_and_pitch" /\ last.outcome = "panic"
    /\ size = 2 /\ last.x = 2 /\ last.y = 1 /\ last.v = 3
    /\ a = NoImage


\* ===================================================== full-width geometry
\* The operators above compute with small numbers, where no product leaves
\* the range of u32. The definitions below model the same geometry code over
\* the whole range of u32: a number is the sequence of its base-256 digits,
\* least significant first, without leading zero digits (<<>> is 0), so that
\* equal numbers are equal sequences. usize is taken to be 64 bits wide (every
\* usize product of the geometry code then fits), and an allocation of any
\* size is taken to succeed.

RECURSIVE Norm(_)
\* drop the zero digits at the most significant end
Norm(d) ==
    IF d = <<>> THEN <<>>
    ELSE IF d[Len(d)] = 0 THEN Norm(SubSeq(d, 1, Len(d) - 1))
    ELSE d

RECURSIVE Digits(_)
\* the number n
Digits(n) == IF n = 0 THEN <<>> ELSE <<n % 256>> \o Digits(n \div 256)

RECURSIVE AddCarry(_, _, _)
AddCarry(p, q, c) ==
    IF p = <<>> /\ q = <<>> THEN Digits(c)
    ELSE LET dp == IF p = <<>> THEN 0 ELSE Head(p)
             dq == IF q = <<>> THEN 0 ELSE Head(q)
             s  == dp + dq + c
         IN  <<s % 256>> \o AddCarry(IF p = <<>> THEN <<>> ELSE Tail(p),
                                     IF q = <<>> THEN <<>> ELSE Tail(q),
                                     s \div 256)

\* p + q
Add(p, q) == Norm(AddCarry(p, q, 0))

RECURSIVE ScaleCarry(_, _, _)
ScaleCarry(p, m, c) ==
    IF p = <<>> THEN Digits(c)
    ELSE LET s == Head(p) * m + c
         IN  <<s % 256>> \o ScaleCarry(Tail(p), m, s \div 256)

RECURSIVE Mul(_, _)
\* p * q
Mul(p, q) ==
    IF p = <<>> THEN <<>>
    ELSE Add(Norm(ScaleCarry(q, Head(p), 0)), Norm(<<0>> \o Mul(Tail(p), q)))

RECURSIVE LessFrom(_, _, _)
\* p < q for numbers of the same length, decided from digit i downwards
LessFrom(p, q, i) ==
    IF i = 0 THEN FALSE
    ELSE IF p[i] # q[i] THEN p[i] < q[i]
    ELSE LessFrom(p, q, i - 1)

\* p < q
Less(p, q) ==
    IF Len(p) # Len(q) THEN Len(p) < Len(q) ELSE LessFrom(p, q, Len(p))

\* p <= q
Leq(p, q) == ~Less(q, p)

\* the conversion `as u32` and the result of a wrapping u32 operation: the
\* four least significant bytes
AsU32(p) == Norm(SubSeq(p, 1, IF Len(p) < 4 THEN Len(p) ELSE 4))

\* p is a value of u32
FitsU32(p) == Len(p) <= 4

\* 2^16, 2^30, 2^31, 2^32 - 1 and small numbers
Two16 == <<0, 0, 1>>
Two30 == <<0, 0, 0, 64>>
Two31 == <<0, 0, 0, 128>>
U32Max == <<255, 255, 255, 255>>


\* the sample sizes of u8, u16, u32 / f32 and f64
WideSampleSizes == {1, 2, 4, 8}

\* Gray::calc_minimum_pitch: (width as usize) * size_of::<BaseTypeP>()
calc_minimum_pitch_wide(width, height) == Mul(width, Digits(SizeOf))

\* variant: the pitch has to exceed the minimum pitch
calc_size_in_bytes_wide_Strict(width, height, pitch) ==
    IF Less(calc_minimum_pitch_wide(width, height), pitch)
    THEN Some(Mul(height, pitch))
    ELSE None

\* Gray::calc_size_in_bytes, in usize
calc_size_in_bytes_wide(width, height, pitch) ==
    IF Leq(calc_minimum_pitch_wide(width, height), pitch)
    THEN Some(Mul(height, pitch))
    ELSE None

\* l * r in u32: an overflow panics when overflow checks are compiled in and
\* wraps otherwise
MulU32(l, r) ==
    LET p == Mul(l, r)
    IN  IF FitsU32(p) THEN [ok |-> TRUE, val |-> p]
        ELSE IF overflow_checks THEN [ok |-> FALSE, val |-> <<>>]
        ELSE [ok |-> TRUE, val |-> AsU32(p)]

\* start of the pixel: (y * pitch) as usize + x as usize * size_of
PixelStart(x, y, pitch) ==
    LET row == MulU32(y, pitch)
    IN  [ok |-> row.ok, val |-> Add(row.val, Mul(x, Digits(SizeOf)))]

\* Gray::load_from_raw_buffer; the intensity is returned as its SizeOf bytes
Gray_load_from_raw_buffer_wide(x, y, pitch, buffer) ==
    LET start == PixelStart(x, y, pitch)
        end   == Add(start.val, Digits(SizeOf))
    IN  IF ~start.ok \/ Less(Digits(Len(buffer)), end)
        THEN [ok |-> FALSE, val |-> <<>>]
        ELSE [ok |-> TRUE,
              val |-> SubSeq(buffer, FromBytes(start.val) + 1, FromBytes(end))]

\* Gray::write_into_raw_buffer; intensity is given as its SizeOf bytes
Gray_write_into_raw_buffer_wide(intensity, x, y, pitch, buffer) ==
    LET start == PixelStart(x, y, pitch)
        end   == Add(start.val, Digits(SizeOf))
    IN  IF ~start.ok \/ Less(Digits(Len(buffer)), end)
        THEN [ok |-> FALSE, buf |-> buffer]
        ELSE LET s == FromBytes(start.val)
             IN  [ok |-> TRUE,
                  buf |-> [i \in 1..Len(buffer) |->
                              IF i > s /\ i <= s + SizeOf
                              THEN intensity[i - s] ELSE buffer[i]]]

\* ImageBufferVal::new_with_size_and_pitch; the zeroed storage is represented
\* by its length
new_with_size_and_pitch_wide(width, height, pitch) ==
    LET size_in_bytes == calc_size_in_bytes_wide(width, height, pitch)
    IN  IF size_in_bytes.tag = "None"
        THEN [ok |-> FALSE, img |-> NoImage]
        ELSE [ok |-> TRUE,
              img |-> [width |-> width, height |-> height, pitch |-> pitch,
                       size_in_bytes |-> size_in_bytes.val]]

\* ImageBufferVal::new_with_size: calc_minimum_pitch(width, height) as u32
new_with_size_wide(width, height) ==
    new_with_size_and_pitch_wide(width, height,
                                 AsU32(calc_minimum_pitch_wide(width, height)))

\* ------------------------------------------------------------------ inputs
\* values of u32: small ones and some near the ends of the range
WideCoords == {Digits(0), Digits(1), Digits(2), Two16, U32Max}
WidePitches == {Digits(0), Digits(1), Digits(4), Two16, U32Max}
WideWidths == {Digits(0), Digits(1), Digits(2), Digits(4), Two16, Two30, Two31, U32Max}
WideHeights == {Digits(0), Digits(1), Digits(2), Two16, U32Max}

\* raw buffers handed to the pixel functions
WideBuffers == {<<0, 1, 0, 0>>, <<7>>, Ramp(9)}

\* intensities, as bytes
WideIntensities == {[i \in 1..SizeOf |-> IF i = 1 THEN 2 ELSE 0],
                    [i \in 1..SizeOf |-> 255]}

\* ----------------------------------------------------------- state machine
WideInit ==
    /\ size \in WideSampleSizes
    /\ overflow_checks \in BOOLEAN
    /\ phase = "none"
    /\ a = NoImage
    /\ last = NoCall

\* Gray::calc_size_in_bytes(width, height, pitch)
CalcSizeInBytes ==
    \E w \in WideWidths, h \in WideHeights, p \in WideWidths \cup WidePitches :
        /\ phase = "none"
        /\ phase' = "called"
        /\ last' = [NoCall EXCEPT !.op = "calc_size_in_bytes", !.x = w, !.y = h,
                                  !.v = p,
                                  !.ret = calc_size_in_bytes_wide(w, h, p)]
        /\ UNCHANGED <<size, overflow_checks, a>>

\* Gray::load_from_raw_buffer(x, y, pitch, buffer)
PixelLoad ==
    \E x \in WideCoords, y \in WideCoords, p \in WidePitches :
      \E buffer \in WideBuffers :
        LET r == Gray_load_from_raw_buffer_wide(x, y, p, buffer)
        IN  /\ phase = "none"
            /\ phase' = "called"
            /\ last' = [NoCall EXCEPT !.op = "px_load_from_raw_buffer", !.x = x,
                                      !.y = y, !.v = p, !.buf = buffer,
                                      !.outcome = Outcome(r.ok),
                                      !.ret = IF r.ok THEN Some(r.val) ELSE Panicked]
            /\ UNCHANGED <<size, overflow_checks, a>>

\* Gray::write_into_raw_buffer(&self, x, y, pitch, buffer)
PixelWrite ==
    \E x \in WideCoords, y \in WideCoords, p \in WidePitches :
      \E buffer \in WideBuffers, intensity \in WideIntensities :
        LET r == Gray_write_into_raw_buffer_wide(intensity, x, y, p, buffer)
        IN  /\ phase = "none"
            /\ phase' = "called"
            /\ last' = [NoCall EXCEPT !.op = "px_write_into_raw_buffer", !.x = x,
                                      !.y = y, !.v = p, !.buf = buffer,
                                      !.b = intensity,
                                      !.outcome = Outcome(r.ok), !.out = r.buf]
            /\ UNCHANGED <<size, overflow_checks, a>>

\* ImageBufferVal::new_with_size(width, height)
WideNewWithSize ==
    \E w \in WideWidths, h \in WideHeights :
        LET r == new_with_size_wide(w, h)
        IN  /\ phase = "none"
            /\ phase' = "fresh"
            /\ a' = r.img
            /\ last' = [NoCall EXCEPT !.op = "new_with_size", !.x = w, !.y = h,
                                      !.outcome = Outcome(r.ok), !.res = r.img]
            /\ UNCHANGED <<size, overflow_checks>>

WideNext ==
    \/ CalcSizeInBytes
    \/ PixelLoad
    \/ PixelWrite
    \/ WideNewWithSize

WideSpec == WideInit /\ [][WideNext]_vars


\* C11: calc_size_in_bytes(width, height, pitch) is Some(height * pitch)
\* exactly when pitch >= width * size_of, and None otherwise; in particular,
\* with the minimum pitch as pitch, it is the minimum pitch times the height.
C11_SizeInBytes ==
    (last.op = "calc_size_in_bytes") =>
        LET minimum == Mul(Digits(SizeOf), last.x)
        IN  /\ last.ret.tag \in {"Some", "None"}
            /\ (last.ret.tag = "Some") <=> ~Less(last.v, minimum)
            /\ (last.ret.tag = "Some") => last.ret.val = Mul(last.v, last.y)
            /\ FitsU32(minimum)
                   => calc_size_in_bytes_wide(last.x, last.y, minimum)
                          = Some(Mul(minimum, last.y))

\* 65536 rows of 65536 one-byte pixels take 2^32 bytes
C11_Witness ==
    /\ last.op = "calc_size_in_bytes" /\ size = 1
    /\ last.x = Two16 /\ last.y = Two16 /\ last.v = Two16
    /\ last.ret = Some(<<0, 0, 0, 0, 1>>)

\* C15: for every x, y, pitch of u32 the pixel functions read or write exactly
\* the size_of bytes at the offset y*pitch + x*size_of, computed without
\* wrap-around, and panic when these bytes are not all inside the buffer.
C15_RawLayout ==
    LET start == Add(Mul(last.y, last.v), Mul(last.x, Digits(SizeOf)))
        end   == Add(start, Digits(SizeOf))
        fits  == Leq(end, Digits(Len(last.buf)))
    IN  /\ (last.op = "px_load_from_raw_buffer") =>
               IF fits
               THEN /\ last.outcome = "ok"
                    /\ last.ret = Some(SubSeq(last.buf, FromBytes(start) + 1,
                                              FromBytes(end)))
               ELSE last.outcome = "panic"
        /\ (last.op = "px_write_into_raw_buffer") =>
               IF fits
               THEN /\ last.outcome = "ok"
                    /\ Len(last.out) = Len(last.buf)
                    /\ \A i \in 1..Len(last.buf) :
                          last.out[i] =
                              IF i > FromBytes(start) /\ i <= FromBytes(end)
                              THEN last.b[i - FromBytes(start)]
                              ELSE last.buf[i]
               ELSE last.outcome = "panic" /\ last.out = last.buf

\* C16: for every width and height of u32, new_with_size(width, height)
\* returns an image whose pitch is width * size_of, also when this product is
\* not a value of u32.
C16_NewWithSizePitch ==
    (last.op = "new_with_size") =>
        /\ last.outcome = "ok"
        /\ a.width = last.x /\ a.height = last.y
        /\ a.pitch = Mul(last.x, Digits(SizeOf))


\* ================================= the loops of the compound assignments
\* One compound assignment of an image (a += b, a += px, a += sc, and so on),
\* executed iteration by iteration. last.x and last.y are the loop variables,
\* last.visited lists the locations whose iteration has completed.

NoScan == [visited |-> <<>>] @@ NoCall

\* the locations of a width x height image, row by row
RowMajor(width, height) ==
    [k \in 1..(width * height) |-> <<(k - 1) % width, (k - 1) \div width>>]

\* variant: the inner loop runs to the height of the image
x_range_end_Height(self) == self.height

\* for x in 0..self.width()
x_range_end(self) == self.width

\* for y in 0..self.height()
y_range_end(self) == self.height

\* the body of the loops: read the pixel, combine it with the operand of the
\* right-hand side at the same location, write it back
assign_body(shape, op, self, rhs_img, rhs_val, x, y) ==
    LET pixel_lhs == ImageBuffer_get_pixel(self, x, y)
        pixel_rhs == IF shape = "img_img" THEN ImageBuffer_get_pixel(rhs_img, x, y)
                     ELSE Some(rhs_val)
    IN  IF pixel_lhs.tag # "Some" \/ pixel_rhs.tag # "Some"
        THEN [ok |-> FALSE, img |-> self]
        ELSE LET np == IF shape = "img_sc"
                       THEN PixelVal_op_assign_sc(op, pixel_lhs.val, pixel_rhs.val)
                       ELSE PixelVal_op_assign_px(op, pixel_lhs.val, pixel_rhs.val)
             IN  IF ~np.ok THEN [ok |-> FALSE, img |-> self]
                 ELSE ImageBuffer_set_pixel(self, x, y, np.val)

\* the left-hand images: constructed with any pitch, then loaded with 0, 1, 2, ...
ScanImages ==
    {RhsImage(w, h, calc_minimum_pitch(w, h) + d, FALSE) :
        w \in 0..MaxWidth, h \in 0..MaxHeight, d \in 0..MaxPad}

ScanInit ==
    /\ size \in SampleSizes
    /\ overflow_checks \in BOOLEAN
    /\ phase = "loaded"
    /\ a \in ScanImages
    /\ last = NoScan

\* a <op>= &b is called: the two asserts, then the loops are entered
ScanEnterImgImg ==
    \E op \in Ops, b \in RhsImages(a) :
        /\ phase = "loaded"
        /\ IF a.width # b.width \/ a.height # b.height
           THEN /\ phase' = "called"
                /\ last' = [NoScan EXCEPT !.op = "assign", !.shape = "img_img",
                                          !.fn = op, !.b = b, !.pre = a,
                                          !.outcome = "panic"]
           ELSE /\ phase' = "scan"
                /\ last' = [NoScan EXCEPT !.op = "assign", !.shape = "img_img",
                                          !.fn = op, !.b = b, !.pre = a]
        /\ UNCHANGED <<size, overflow_checks, a>>

\* a <op>= px or a <op>= sc is called: the loops are entered
ScanEnterImgVal ==
    \E shape \in AssignValShapes, op \in Ops, v \in Vals :
        /\ phase = "loaded"
        /\ phase' = "scan"
        /\ last' = [NoScan EXCEPT !.op = "assign", !.shape = shape, !.fn = op,
                                  !.v = v, !.pre = a]
        /\ UNCHANGED <<size, overflow_checks, a>>

\* one iteration of the inner loop
ScanStep ==
    /\ phase = "scan"
    /\ last.y < y_range_end(a)
    /\ last.x < x_range_end(a)
    /\ LET r == assign_body(last.shape, last.fn, a, last.b, last.v, last.x, last.y)
       IN  IF r.ok
           THEN /\ a' = r.img
                /\ last' = [last EXCEPT !.x = last.x + 1,
                                        !.visited = Append(last.visited,
                                                           <<last.x, last.y>>)]
                /\ UNCHANGED phase
           ELSE /\ phase' = "called"
                /\ last' = [last EXCEPT !.outcome = "panic"]
                /\ UNCHANGED a
    /\ UNCHANGED <<size, overflow_checks>>

\* the inner loop is exhausted: the next row
ScanRowEnd ==
    /\ phase = "scan"
    /\ last.y < y_range_end(a)
    /\ last.x >= x_range_end(a)
    /\ last' = [last EXCEPT !.x = 0, !.y = last.y + 1]
    /\ UNCHANGED <<size, overflow_checks, phase, a>>

\* the outer loop is exhausted: the operator returns
ScanReturn ==
    /\ phase = "scan"
    /\ last.y >= y_range_end(a)
    /\ phase' = "called"
    /\ UNCHANGED <<size, overflow_checks, a, last>>

ScanNext ==
    \/ ScanEnterImgImg
    \/ ScanEnterImgVal
    \/ ScanStep
    \/ ScanRowEnd
    \/ ScanReturn

\* a call that has started is run to its end
ScanSpec == ScanInit /\ [][ScanNext]_vars /\ WF_vars(ScanNext)

\* the result of the whole operator, as the state machine Spec computes it
ScanWhole ==
    IF last.shape = "img_img" THEN op_assign_img_img(last.fn, last.pre, last.b)
    ELSE op_assign_img_val(last.shape, last.fn, last.pre, last.v, 0)

\* the iterations done so far are the first ones of the row-major order, and
\* the image has kept its width, height, pitch and storage length
ScanSoFar ==
    (last.op = "assign") =>
        /\ a.width = last.pre.width /\ a.height = last.pre.height
        /\ a.pitch = last.pre.pitch
        /\ Len(a.raw_data) = Len(last.pre.raw_data)
        /\ Len(last.visited) <= a.width * a.height
        /\ last.visited = SubSeq(RowMajor(a.width, a.height), 1, Len(last.visited))
        /\ (phase = "scan" /\ last.y < a.height)
               => Len(last.visited) = last.y * a.width + last.x

\* the operator returns only after width * height iterations, one for each
\* location; it stops earlier only by a panic, of the asserts or of the
\* arithmetic of the next location
ScanAtEnd ==
    (phase = "called") =>
        /\ ScanWhole.ok <=> (last.outcome = "ok")
        /\ ScanWhole.img = a
        /\ (last.outcome = "ok")
               => /\ Len(last.visited) = a.width * a.height
                  /\ last.visited = RowMajor(a.width, a.height)
                  /\ \A loc \in Locations(a) :
                        Cardinality({k \in 1..Len(last.visited) :
                                        last.visited[k] = loc}) = 1
        /\ (last.outcome = "panic")
               => \/ /\ last.shape = "img_img"
                     /\ (last.b.width # a.width \/ last.b.height # a.height)
                  \/ /\ Len(last.visited) < a.width * a.height
                     /\ ~assign_body(last.shape, last.fn, a, last.b, last.v,
                                     last.x, last.y).ok

\* C18: every compound assignment of a width x height image terminates; when
\* no per-pixel arithmetic fails it returns after exactly width * height
\* read-combine-write iterations, one for each location, in row-major order,
\* and width, height, pitch and the storage length never change.
C18_FullScanTerminates ==
    /\ [](ScanSoFar /\ ScanAtEnd)
    /\ <>(phase = "called")

\* a padded 2 x 2 image after the four iterations of a += b
C18_Witness ==
    /\ phase = "called" /\ last.outcome = "ok"
    /\ last.shape = "img_img" /\ last.fn = "add"
    /\ a.width = 2 /\ a.height = 2
    /\ a.pitch > calc_minimum_pitch(a.width, a.height)
    /\ last.visited = <<<<0, 0>>, <<1, 0>>, <<0, 1>>, <<1, 1>>>>
    /\ a # last.pre

====
